---- MODULE Spec2Model ----
(***************************************************************************)
(* Model of the adaptive multi-pass markdown chunker (src/chunker.py).     *)
(*                                                                         *)
(* A text is a sequence of one-character strings.  Every regular           *)
(* expression of the source is modelled by what it matches on such a       *)
(* sequence, every str method (split, strip, join, replace) by what it     *)
(* returns.  A metadata dict is a record with a set of present keys.       *)
(***************************************************************************)
EXTENDS Integers, Sequences, FiniteSets, TLC

VARIABLES
    text,            \* markdown_text, the argument of chunk()
    max_tokens,      \* self.max_tokens
    overlap_tokens,  \* self.overlap_tokens
    pc,              \* position of chunk(): "start", "loop", "done"
    sections,        \* top-level sections chunk() has still to visit
    chunks,          \* the list chunk() is building (and returns)
    visited,         \* history: one entry per top-level section visited
    results,         \* history: what the calls of chunk() on this engine returned
    other,           \* a second call of chunk() on the same engine (another thread)
    window,          \* a call of _get_overlap_text(): its argument and what it returned
    split,           \* a call of one splitter on its own: its argument and what it returned
    entry,           \* how the app is served: "main" (main.py) or "serverless" (api/index.py)
    components,      \* main.py's globals pdf_converter, markdown_chunker, embedding_generator
    max_retries,     \* EmbeddingGenerator.max_retries
    request,         \* the request process_pdf is working on, and its position
    tasks,           \* one _generate_with_retry task per chunk, given to asyncio.gather
    finished,        \* history: the tasks that returned, in the order they returned
    response         \* what process_pdf answered

vars == <<text, max_tokens, overlap_tokens, pc, sections, chunks, visited,
          results, other, window, split,
          entry, components, max_retries, request, tasks, finished, response>>

\* the service around the chunker (main.py, embedder.py)
service == <<entry, components, max_retries, request, tasks, finished, response>>

\* what lies outside one call of chunk()
callers == <<results, other, window, split>>

-----------------------------------------------------------------------------
(* Characters and the str methods the chunker uses.                        *)

NL == "\n"

\* the whitespace of str beyond the blank and the characters with an escape,
\* each written as the character itself: U+000B, U+001C, U+001D, U+001E,
\* U+001F, U+0085, U+00A0, U+1680
UnicodeWhitespace ==
    {"", "", "", "", "", "", " ", " "}

\* what str.split(), str.strip() and \s of re take for whitespace.  The rest
\* of it (U+2000 to U+200A, U+2028, U+2029, U+202F, U+205F, U+3000) cannot be
\* written in a string here.
Whitespace == {" ", NL, "\t", "\r", "\f"} \cup UnicodeWhitespace

IsSpace(c) == c \in Whitespace

IsPunct(c) == c \in {".", "!", "?"}

\* the decimal digits of other scripts, each written as the character
\* itself (those of the remaining scripts cannot be written in a string here)
UnicodeDigits ==
    {
      \* U+06F0 to U+06F9, Extended Arabic-Indic
      "۰", "۱", "۲", "۳", "۴", "۵", "۶", "۷", "۸", "۹",
      \* U+07C0 to U+07C9, Nko
      "߀", "߁", "߂", "߃", "߄", "߅", "߆", "߇", "߈", "߉",
      \* U+09E6 to U+09EF, Bengali
      "০", "১", "২", "৩", "৪", "৫", "৬", "৭", "৮", "৯",
      \* U+0AE6 to U+0AEF, Gujarati
      "૦", "૧", "૨", "૩", "૪", "૫", "૬", "૭", "૮", "૯",
      \* U+0BE6 to U+0BEF, Tamil
      "௦", "௧", "௨", "௩", "௪", "௫", "௬", "௭", "௮", "௯",
      \* U+0CE6 to U+0CEF, Kannada
      "೦", "೧", "೨", "೩", "೪", "೫", "೬", "೭", "೮", "೯",
      \* U+0DE6 to U+0DEF, Sinhala Lith
      "෦", "෧", "෨", "෩", "෪", "෫", "෬", "෭", "෮", "෯",
      \* U+0ED0 to U+0ED9, Lao
      "໐", "໑", "໒", "໓", "໔", "໕", "໖", "໗", "໘", "໙",
      \* U+1090 to U+1099, Myanmar Shan
      "႐", "႑", "႒", "႓", "႔", "႕", "႖", "႗", "႘", "႙",
      \* U+17E0 to U+17E9, Khmer
      "០", "១", "២", "៣", "៤", "៥", "៦", "៧", "៨", "៩",
      \* U+19D0 to U+19D9, New Tai Lue
      "᧐", "᧑", "᧒", "᧓", "᧔", "᧕", "᧖", "᧗", "᧘", "᧙",
      \* U+1A80 to U+1A89, Tai Tham Hora
      "᪀", "᪁", "᪂", "᪃", "᪄", "᪅", "᪆", "᪇", "᪈", "᪉",
      \* U+1A90 to U+1A99, Tai Tham Tham
      "᪐", "᪑", "᪒", "᪓", "᪔", "᪕", "᪖", "᪗", "᪘", "᪙",
      \* U+1BB0 to U+1BB9, Sundanese
      "᮰", "᮱", "᮲", "᮳", "᮴", "᮵", "᮶", "᮷", "᮸", "᮹",
      \* U+A8D0 to U+A8D9, Saurashtra
      "꣐", "꣑", "꣒", "꣓", "꣔", "꣕", "꣖", "꣗", "꣘", "꣙",
      \* U+A9D0 to U+A9D9, Javanese
      "꧐", "꧑", "꧒", "꧓", "꧔", "꧕", "꧖", "꧗", "꧘", "꧙",
      \* U+A9F0 to U+A9F9, Myanmar Tai Laing
      "꧰", "꧱", "꧲", "꧳", "꧴", "꧵", "꧶", "꧷", "꧸", "꧹",
      \* U+ABF0 to U+ABF9, Meetei Mayek
      "꯰", "꯱", "꯲", "꯳", "꯴", "꯵", "꯶", "꯷", "꯸", "꯹" }

\* what \d of re takes for a digit
Digits == {"0", "1", "2", "3", "4", "5", "6", "7", "8", "9"} \cup UnicodeDigits

\* Number of consecutive characters of s from i on that are in the set cs.
RECURSIVE RunLen(_, _, _)
RunLen(s, i, cs) ==
    IF i > Len(s) \/ s[i] \notin cs THEN 0 ELSE 1 + RunLen(s, i + 1, cs)

\* Number of consecutive whitespace characters of s from i backwards.
RECURSIVE BackRun(_, _)
BackRun(s, i) ==
    IF i < 1 \/ ~IsSpace(s[i]) THEN 0 ELSE 1 + BackRun(s, i - 1)

\* Number of consecutive characters of s from i on that are not line breaks.
RECURSIVE LineLen(_, _)
LineLen(s, i) ==
    IF i > Len(s) \/ s[i] = NL THEN 0 ELSE 1 + LineLen(s, i + 1)

\* str.strip()
Strip(s) ==
    LET b == RunLen(s, 1, Whitespace)
    IN  IF b = Len(s) THEN <<>> ELSE SubSeq(s, b + 1, Len(s) - BackRun(s, Len(s)))

IsBlank(s) == RunLen(s, 1, Whitespace) = Len(s)

\* First index of a word of s: a non-space character at the start of s or
\* after a space character.
WordStarts(s) == {i \in 1..Len(s) : ~IsSpace(s[i]) /\ (i = 1 \/ IsSpace(s[i-1]))}

\* Number of consecutive non-space characters of s from i on.
RECURSIVE WordLen(_, _)
WordLen(s, i) ==
    IF i > Len(s) \/ IsSpace(s[i]) THEN 0 ELSE 1 + WordLen(s, i + 1)

RECURSIVE WordsFrom(_, _)
WordsFrom(s, i) ==
    IF i > Len(s) THEN <<>>
    ELSE IF IsSpace(s[i]) THEN WordsFrom(s, i + 1)
    ELSE LET n == WordLen(s, i)
         IN  <<SubSeq(s, i, i + n - 1)>> \o WordsFrom(s, i + n)

\* str.split(): the whitespace-delimited words of s, in order.
Words(s) == WordsFrom(s, 1)

\* The pieces of s cut before every index of cuts: re.split on a lookahead,
\* which matches the empty string at each of those indices.
RECURSIVE CutFrom(_, _, _, _)
CutFrom(s, cuts, i, start) ==
    IF i > Len(s) THEN <<SubSeq(s, start, Len(s))>>
    ELSE IF i \in cuts
         THEN <<SubSeq(s, start, i - 1)>> \o CutFrom(s, cuts, i + 1, i)
         ELSE CutFrom(s, cuts, i + 1, start)

SplitBefore(s, cuts) == CutFrom(s, cuts, 1, 1)

\* Indices at which a line of s starts (^ under re.MULTILINE).
LineStarts(s) == {i \in 1..Len(s) : i = 1 \/ s[i-1] = NL}

\* Last index of the line that starts at i (i - 1 for an empty line).
LineEnd(s, i) == i - 1 + LineLen(s, i)

\* sep.join(parts)
RECURSIVE Join(_, _)
Join(parts, sep) ==
    IF Len(parts) = 0 THEN <<>>
    ELSE IF Len(parts) = 1 THEN parts[1]
    ELSE parts[1] \o sep \o Join(Tail(parts), sep)

\* text.split("\n\n"): non-overlapping separators, found left to right.
RECURSIVE SplitParaFrom(_, _, _)
SplitParaFrom(s, i, start) ==
    IF i >= Len(s) THEN <<SubSeq(s, start, Len(s))>>
    ELSE IF s[i] = NL /\ s[i+1] = NL
         THEN <<SubSeq(s, start, i - 1)>> \o SplitParaFrom(s, i + 2, i + 2)
         ELSE SplitParaFrom(s, i + 1, start)

SplitParagraphs(s) == SplitParaFrom(s, 1, 1)

\* re.split(r"(?<=[.!?])\s+", s): every maximal run of whitespace that
\* directly follows ., ! or ? is removed and separates two sentences.
RECURSIVE SplitSentFrom(_, _, _)
SplitSentFrom(s, i, start) ==
    IF i > Len(s) THEN <<SubSeq(s, start, Len(s))>>
    ELSE IF i > 1 /\ IsPunct(s[i-1]) /\ IsSpace(s[i])
         THEN LET n == RunLen(s, i, Whitespace)
              IN  <<SubSeq(s, start, i - 1)>> \o SplitSentFrom(s, i + n, i + n)
         ELSE SplitSentFrom(s, i + 1, start)

SplitSentences(s) == SplitSentFrom(s, 1, 1)

\* str.replace("**", ""): non-overlapping occurrences, left to right.
RECURSIVE RemoveBold(_)
RemoveBold(s) ==
    IF Len(s) = 0 THEN <<>>
    ELSE IF Len(s) >= 2 /\ s[1] = "*" /\ s[2] = "*"
         THEN RemoveBold(SubSeq(s, 3, Len(s)))
         ELSE <<s[1]>> \o RemoveBold(Tail(s))

-----------------------------------------------------------------------------
(* Metadata dicts.                                                         *)

NoText == <<>>

Meta(ks, h, sec, m) == [keys |-> ks, heading |-> h, section |-> sec, chunking_method |-> m]

EmptyMeta == Meta({}, NoText, "", "")

MethodOnly(m) == Meta({"chunking_method"}, NoText, "", m)

FullMeta(h, sec, m) == Meta({"heading", "section", "chunking_method"}, h, sec, m)

\* metadata.copy(); metadata["chunking_method"] = m
WithMethod(md, m) ==
    [md EXCEPT !.keys = @ \cup {"chunking_method"}, !.chunking_method = m]

LevelTag(n) == <<"h1", "h2", "h3", "h4", "h5", "h6">>[n]

-----------------------------------------------------------------------------
(* The token estimator and the pattern detectors.                          *)

\* len(text.split())
WordCount(t) == Cardinality(WordStarts(t))

\* int(word_count * 1.3)
_estimate_tokens(t) == (WordCount(t) * 13) \div 10

\* #{lo,6}\s+ matches at index i of s: between lo and 6 '#', then whitespace.
HeaderAt(s, i, lo) ==
    LET h == RunLen(s, i, {"#"})
    IN  h >= lo /\ h <= 6 /\ i + h <= Len(s) /\ IsSpace(s[i + h])

\* ^\*\*.{n,}\*\*$ matches the line of s that starts at i.
BoldLineAt(s, i, n) ==
    LET e == LineEnd(s, i)
    IN  /\ e - i + 1 >= n + 4
        /\ s[i] = "*" /\ s[i + 1] = "*"
        /\ s[e - 1] = "*" /\ s[e] = "*"

\* re.match(r"^(#{1,6})\s+(.+)$", section, re.MULTILINE): the level and the
\* heading text, or hit = FALSE.  When the whitespace after the '#' runs to
\* the end of the text, \s+ gives characters back and (.+) takes blanks.
HeaderMatch(section) ==
    LET h == RunLen(section, 1, {"#"})
        w == RunLen(section, h + 1, Whitespace)
        b == h + w + 1
    IN  IF h < 1 \/ h > 6 \/ w < 1
        THEN [hit |-> FALSE, level |-> 0, heading |-> NoText]
        ELSE IF b <= Len(section)
        THEN [hit |-> TRUE, level |-> h,
              heading |-> Strip(SubSeq(section, b, LineEnd(section, b)))]
        ELSE [hit |-> \E k \in 2..w : section[h + k] # NL, level |-> h,
              heading |-> NoText]

_extract_header_info(section) ==
    LET m == HeaderMatch(section)
    IN  IF m.hit
        THEN FullMeta(m.heading, LevelTag(m.level), "markdown_headers")
        ELSE EmptyMeta

_has_markdown_subheaders(t) == \E i \in LineStarts(t) : HeaderAt(t, i, 2)

BoldHeadingLines(t) == {i \in LineStarts(t) : BoldLineAt(t, i, 6)}

_has_bold_headings(t, min_splits) == Cardinality(BoldHeadingLines(t)) >= min_splits

_extract_bold_heading_info(section) ==
    IF Len(section) >= 1 /\ BoldLineAt(section, 1, 1)
    THEN FullMeta(Strip(RemoveBold(SubSeq(section, 1, LineEnd(section, 1)))),
                  "bold", "bold_headings")
    ELSE LET m == HeaderMatch(section)
         IN  IF m.hit
             THEN FullMeta(m.heading, LevelTag(m.level), "bold_headings")
             ELSE MethodOnly("bold_headings")

-----------------------------------------------------------------------------
(* The three splitters.  A section is [text, metadata].                    *)

Sec(t, md) == [text |-> t, metadata |-> md]

\* for section in sections: section = section.strip(); skip the empty ones
StrippedNonEmpty(pieces) ==
    SelectSeq([k \in 1..Len(pieces) |-> Strip(pieces[k])], LAMBDA x : Len(x) > 0)

\* Mutant: (?=^#\s+) - a cut in front of level-1 headers only.
HeaderCuts_TopLevelOnly(t) == {i \in LineStarts(t) : HeaderAt(t, i, 1) /\ ~HeaderAt(t, i, 2)}

\* the positions (?=^#{1,6}\s+) matches at
HeaderCuts(t) == {i \in LineStarts(t) : HeaderAt(t, i, 1)}

\* Mutant: the fallback section is the stripped text.
_split_by_headers_strips(markdown_text) ==
    LET kept == StrippedNonEmpty(SplitBefore(markdown_text, HeaderCuts(markdown_text)))
        result == [k \in 1..Len(kept) |-> Sec(kept[k], _extract_header_info(kept[k]))]
    IN  IF Len(result) > 0 THEN result ELSE <<Sec(Strip(markdown_text), EmptyMeta)>>

\* Mutant: "return result" - no fallback section when nothing is left.
_split_by_headers_no_fallback(markdown_text) ==
    LET kept == StrippedNonEmpty(SplitBefore(markdown_text, HeaderCuts(markdown_text)))
    IN  [k \in 1..Len(kept) |-> Sec(kept[k], _extract_header_info(kept[k]))]

_split_by_headers(markdown_text) ==
    LET kept == StrippedNonEmpty(SplitBefore(markdown_text, HeaderCuts(markdown_text)))
        result == [k \in 1..Len(kept) |-> Sec(kept[k], _extract_header_info(kept[k]))]
    IN  IF Len(result) > 0 THEN result ELSE <<Sec(markdown_text, EmptyMeta)>>

_split_by_bold_headings(t) ==
    LET kept == StrippedNonEmpty(SplitBefore(t, BoldHeadingLines(t)))
        result == [k \in 1..Len(kept) |-> Sec(kept[k], _extract_bold_heading_info(kept[k]))]
    IN  IF Len(result) > 0 THEN result ELSE <<Sec(t, MethodOnly("paragraph_split"))>>

HeadingLimit == 100

\* (?=\n[-*]\s+) | (?=\n\d+\.\s+) | (?=\n[-*]{3,}\n) matches at index p.
MarkerAt(s, p) ==
    /\ s[p] = NL
    /\ LET d == RunLen(s, p + 1, Digits)
           r == RunLen(s, p + 1, {"-", "*"})
       IN  \/ p + 2 <= Len(s) /\ s[p + 1] \in {"-", "*"} /\ IsSpace(s[p + 2])
           \/ d >= 1 /\ p + d + 2 <= Len(s) /\ s[p + d + 1] = "." /\ IsSpace(s[p + d + 2])
           \/ r >= 3 /\ p + r + 1 <= Len(s) /\ s[p + r + 1] = NL

MarkerCuts(t) == {p \in 1..Len(t) : MarkerAt(t, p)}

StructuralMeta(section) ==
    LET first_line == SubSeq(section, 1, LineEnd(section, 1))
        n == IF Len(first_line) < HeadingLimit THEN Len(first_line) ELSE HeadingLimit
    IN  FullMeta(SubSeq(first_line, 1, n), "structural", "structural_markers")

_split_by_structural_markers(t) ==
    LET kept == StrippedNonEmpty(SplitBefore(t, MarkerCuts(t)))
        result == [k \in 1..Len(kept) |-> Sec(kept[k], StructuralMeta(kept[k]))]
    IN  IF Len(result) > 0 THEN result ELSE <<Sec(t, MethodOnly("paragraph_split"))>>

-----------------------------------------------------------------------------
(* The paragraph/sentence packer and the overlap window.                   *)

\* (text, metadata.copy())
Chk(t, md) == [text |-> t, metadata |-> md]

\* Mutant: "if len(current_chunk) > 1" - a pending chunk of one part is lost.
Flush_OnlySeveral(acc, parts, sep, md) ==
    IF Len(parts) > 1 THEN Append(acc, Chk(Join(parts, sep), md)) ELSE acc

\* Mutant: chunks.insert(0, ...) - a closed chunk goes to the front.
Flush_InFront(acc, parts, sep, md) ==
    IF Len(parts) > 0 THEN <<Chk(Join(parts, sep), md)>> \o acc ELSE acc

Flush(acc, parts, sep, md) ==
    IF Len(parts) > 0 THEN Append(acc, Chk(Join(parts, sep), md)) ELSE acc

\* Mutant: "sentence_tokens = 0" after a flush - the sentence that opened the
\* new chunk is not counted.
RECURSIVE PackSentences_Uncounted(_, _, _, _, _, _)
PackSentences_Uncounted(sentences, k, acc, sentence_chunk, sentence_tokens, md) ==
    IF k > Len(sentences) THEN Flush(acc, sentence_chunk, <<" ">>, md)
    ELSE LET sent_tokens == _estimate_tokens(sentences[k])
         IN  IF sentence_tokens + sent_tokens > max_tokens
             THEN PackSentences_Uncounted(sentences, k + 1,
                                Flush(acc, sentence_chunk, <<" ">>, md),
                                <<sentences[k]>>, 0, md)
             ELSE PackSentences_Uncounted(sentences, k + 1, acc,
                                Append(sentence_chunk, sentences[k]),
                                sentence_tokens + sent_tokens, md)

\* for sentence in sentences: ... ; if sentence_chunk: chunks.append(...)
RECURSIVE PackSentences(_, _, _, _, _, _)
PackSentences(sentences, k, acc, sentence_chunk, sentence_tokens, md) ==
    IF k > Len(sentences) THEN Flush(acc, sentence_chunk, <<" ">>, md)
    ELSE LET sent_tokens == _estimate_tokens(sentences[k])
         IN  IF sentence_tokens + sent_tokens > max_tokens
             THEN PackSentences(sentences, k + 1,
                                Flush(acc, sentence_chunk, <<" ">>, md),
                                <<sentences[k]>>, sent_tokens, md)
             ELSE PackSentences(sentences, k + 1, acc,
                                Append(sentence_chunk, sentences[k]),
                                sentence_tokens + sent_tokens, md)

\* for para in paragraphs: ... ; if current_chunk: chunks.append(...)
RECURSIVE PackParagraphs(_, _, _, _, _, _)
PackParagraphs(paragraphs, k, acc, current_chunk, current_tokens, md) ==
    IF k > Len(paragraphs) THEN Flush(acc, current_chunk, <<NL, NL>>, md)
    ELSE LET para == paragraphs[k]
             para_tokens == _estimate_tokens(para)
         IN  IF para_tokens > max_tokens
             THEN PackParagraphs(paragraphs, k + 1,
                      PackSentences(SplitSentences(para), 1,
                                    Flush(acc, current_chunk, <<NL, NL>>, md),
                                    <<>>, 0, md),
                      <<>>, 0, md)
             ELSE IF current_tokens + para_tokens > max_tokens
             THEN PackParagraphs(paragraphs, k + 1,
                                 Flush(acc, current_chunk, <<NL, NL>>, md),
                                 <<para>>, para_tokens, md)
             ELSE PackParagraphs(paragraphs, k + 1, acc,
                                 Append(current_chunk, para),
                                 current_tokens + para_tokens, md)

\* The chunks of _split_by_paragraphs before its overlap step.
Packed(t, md) == PackParagraphs(SplitParagraphs(t), 1, <<>>, <<>>, 0, md)

\* for i in range(len(sentences) - 1, -1, -1): ...
RECURSIVE OverlapLoop(_, _, _, _, _)
OverlapLoop(sentences, i, overlap, tokens, target_tokens) ==
    IF i < 1 THEN overlap
    ELSE LET sentence_tokens == _estimate_tokens(sentences[i])
         IN  IF tokens + sentence_tokens > target_tokens THEN overlap
             ELSE OverlapLoop(sentences, i - 1,
                      sentences[i] \o (IF Len(overlap) > 0 THEN <<" ">> ELSE <<>>) \o overlap,
                      tokens + sentence_tokens, target_tokens)

_get_overlap_text(t, target_tokens) ==
    IF Len(t) = 0 \/ target_tokens <= 0 THEN <<>>
    ELSE LET sentences == SplitSentences(t)
         IN  Strip(OverlapLoop(sentences, Len(sentences), <<>>, 0, target_tokens))

\* self.increased_overlap
increased_overlap == overlap_tokens * 2

\* Mutant: f"{overlap_text}\n{current_text}" - one line break, no blank line.
AddOverlap_OneBreak(packed, overlap) ==
    [i \in 1..Len(packed) |->
        IF i = 1 THEN packed[i]
        ELSE Chk(_get_overlap_text(packed[i - 1].text, overlap) \o <<NL>> \o packed[i].text,
                 packed[i].metadata)]

\* current_text = f"{overlap_text}\n\n{current_text}" for every chunk but
\* the first
AddOverlap(packed, overlap) ==
    [i \in 1..Len(packed) |->
        IF i = 1 THEN packed[i]
        ELSE Chk(_get_overlap_text(packed[i - 1].text, overlap) \o <<NL, NL>> \o packed[i].text,
                 packed[i].metadata)]

\* Mutant: "if len(chunks) > 1" - the overlap step runs for every caller,
\* with self.overlap_tokens where use_increased_overlap is False.
_split_by_paragraphs_overlaps(t, md, use_increased_overlap) ==
    LET overlap == IF use_increased_overlap THEN increased_overlap ELSE overlap_tokens
        packed == Packed(t, md)
    IN  IF Len(packed) > 1
        THEN AddOverlap(packed, overlap)
        ELSE packed

\* Mutant: the overlap step takes self.overlap_tokens, not the doubled
\* self.increased_overlap.
_split_by_paragraphs_plain_overlap(t, md, use_increased_overlap) ==
    LET packed == Packed(t, md)
    IN  IF use_increased_overlap /\ Len(packed) > 1
        THEN AddOverlap(packed, overlap_tokens)
        ELSE packed

_split_by_paragraphs(t, md, use_increased_overlap) ==
    LET overlap == IF use_increased_overlap THEN increased_overlap ELSE overlap_tokens
        packed == Packed(t, md)
    IN  IF use_increased_overlap /\ Len(packed) > 1
        THEN AddOverlap(packed, overlap)
        ELSE packed

-----------------------------------------------------------------------------
(* The adaptive orchestrator.                                              *)

\* for section_text, section_metadata in sections: keep the section when it
\* fits, pack it (without overlap) when it does not
RECURSIVE Finalize(_, _)
Finalize(secs, k) ==
    IF k > Len(secs) THEN <<>>
    ELSE LET sc == secs[k]
         IN  (IF IsBlank(sc.text) THEN <<>>
              ELSE IF _estimate_tokens(sc.text) <= max_tokens
                   THEN <<Chk(sc.text, sc.metadata)>>
                   ELSE _split_by_paragraphs(sc.text, sc.metadata, FALSE))
             \o Finalize(secs, k + 1)

\* Mutant: the structural pass is tried before the bold pass.
AdaptivePass_StructuralFirst(t) ==
    IF _has_markdown_subheaders(t) THEN "header"
    ELSE IF Len(_split_by_structural_markers(t)) >= 2 THEN "structural"
    ELSE IF _has_bold_headings(t, 2) /\ Len(_split_by_bold_headings(t)) >= 2 THEN "bold"
    ELSE "fallback"

\* The pass of _split_large_section_adaptive that returns for this text.
AdaptivePass(t) ==
    IF _has_markdown_subheaders(t) THEN "header"
    ELSE IF _has_bold_headings(t, 2) /\ Len(_split_by_bold_headings(t)) >= 2 THEN "bold"
    ELSE IF Len(_split_by_structural_markers(t)) >= 2 THEN "structural"
    ELSE "fallback"

_split_large_section_adaptive(t, md) ==
    LET pass == AdaptivePass(t)
    IN  IF pass = "header" THEN Finalize(_split_by_headers(t), 1)
        ELSE IF pass = "bold" THEN Finalize(_split_by_bold_headings(t), 1)
        ELSE IF pass = "structural" THEN Finalize(_split_by_structural_markers(t), 1)
        ELSE _split_by_paragraphs(t, WithMethod(md, "paragraph_split"), TRUE)

\* section_tokens > self.max_tokens * 0.8, in integers
AboveEightTenths(section_tokens) == section_tokens * 10 > max_tokens * 8

\* Mutant: only an over-budget section is escalated.
needs_adaptive_splitting_oversize(section_text) ==
    _estimate_tokens(section_text) > max_tokens

needs_adaptive_splitting(section_text) ==
    LET section_tokens == _estimate_tokens(section_text)
    IN  \/ section_tokens > max_tokens
        \/ AboveEightTenths(section_tokens) /\ _has_markdown_subheaders(section_text)
        \/ AboveEightTenths(section_tokens) /\ _has_bold_headings(section_text, 2)

-----------------------------------------------------------------------------
(* The inputs: texts of up to MaxLines lines, each line taken from Lines    *)
(* and the lines joined by line breaks (an empty line between two lines    *)
(* makes a paragraph break).                                               *)

MaxLines == 3

MaxTokens == 4

MaxOverlap == 1

\* an empty line, an h1 header, an h2 header, a standalone bold heading,
\* a bullet item, a sentence
Lines ==
    { <<>>,
      <<"#", " ", "a">>,
      <<"#", "#", " ", "b", " ", "c">>,
      <<"*", "*", "d", "d", "d", "d", "d", "d", "*", "*">>,
      <<"-", " ", "e", "\t", "f">>,
      <<"g", " ", "h", ".">> }

RECURSIVE JoinLines(_, _)
JoinLines(ls, k) ==
    IF k = Len(ls) THEN ls[k]
    ELSE ls[k] \o <<NL>> \o JoinLines(ls, k + 1)

TextsOf(n) ==
    {JoinLines(ls, 1) : ls \in [1..n -> Lines]}

Texts == UNION {TextsOf(n) : n \in 1..MaxLines}

-----------------------------------------------------------------------------
(* chunk(): one action per step of its loop over the top-level sections.   *)

\* no second call, and nothing returned yet
NoCall == [pc |-> "none", text |-> <<>>, sections |-> <<>>, chunks |-> <<>>]

\* _get_overlap_text() not called on its own
NoWindow == [pc |-> "none", text |-> <<>>, overlap |-> <<>>]

\* no splitter called on its own
NoSplit == [pc |-> "none", splitter |-> "none", text |-> <<>>, sections |-> <<>>]

OneCall == results = {} /\ other = NoCall /\ window = NoWindow /\ split = NoSplit

\* pdf_converter = None, markdown_chunker = None, embedding_generator = None
NoComponents ==
    [pdf_converter |-> FALSE, markdown_chunker |-> FALSE, embedding_generator |-> FALSE]

NoRequest ==
    [pc |-> "none", document_type_ok |-> FALSE, filename_ok |-> FALSE, pdf_ok |-> FALSE]

NoResponse == [status |-> 0, total_chunks |-> 0, chunks |-> <<>>]

\* the chunker used on its own, without the service
NoService ==
    /\ entry = "none"
    /\ components = NoComponents
    /\ max_retries = 0
    /\ request = NoRequest
    /\ tasks = <<>>
    /\ finished = <<>>
    /\ response = NoResponse

Init ==
    /\ text \in Texts
    /\ max_tokens \in 1..MaxTokens
    /\ overlap_tokens \in 0..MaxOverlap
    /\ pc = "start"
    /\ sections = <<>>
    /\ chunks = <<>>
    /\ visited = <<>>
    /\ OneCall
    /\ NoService

AsChunks(subs) == [k \in 1..Len(subs) |-> [content |-> subs[k].text, metadata |-> subs[k].metadata]]

TextsIn(subs) == [k \in 1..Len(subs) |-> subs[k].text]

\* sections = self._split_by_headers(markdown_text)
ChunkStart ==
    /\ pc = "start"
    /\ sections' = _split_by_headers(text)
    /\ pc' = "loop"
    /\ UNCHANGED <<text, max_tokens, overlap_tokens, chunks, visited, callers, service>>

\* if not needs_adaptive_splitting: chunks.append({content, metadata})
KeepSection ==
    /\ pc = "loop" /\ Len(sections) > 0
    /\ ~needs_adaptive_splitting(sections[1].text)
    /\ chunks' = Append(chunks, [content |-> sections[1].text, metadata |-> sections[1].metadata])
    /\ visited' = Append(visited,
           [text |-> sections[1].text, metadata |-> sections[1].metadata,
            escalated |-> FALSE, pass |-> "none",
            first |-> Len(chunks) + 1, count |-> 1, own |-> <<sections[1].text>>])
    /\ sections' = Tail(sections)
    /\ UNCHANGED <<text, max_tokens, overlap_tokens, pc, callers, service>>

\* else: sub_chunks = self._split_large_section_adaptive(section_text, metadata)
AdaptSection ==
    /\ pc = "loop" /\ Len(sections) > 0
    /\ needs_adaptive_splitting(sections[1].text)
    /\ LET sub_chunks == _split_large_section_adaptive(sections[1].text, sections[1].metadata)
           pass == AdaptivePass(sections[1].text)
       IN  /\ chunks' = chunks \o AsChunks(sub_chunks)
           /\ visited' = Append(visited,
                  [text |-> sections[1].text, metadata |-> sections[1].metadata,
                   escalated |-> TRUE, pass |-> pass,
                   first |-> Len(chunks) + 1, count |-> Len(sub_chunks),
                   own |-> IF pass = "fallback"
                           THEN TextsIn(Packed(sections[1].text, sections[1].metadata))
                           ELSE TextsIn(sub_chunks)])
    /\ sections' = Tail(sections)
    /\ UNCHANGED <<text, max_tokens, overlap_tokens, pc, callers, service>>

\* return chunks
ChunkReturn ==
    /\ pc = "loop" /\ Len(sections) = 0
    /\ pc' = "done"
    /\ UNCHANGED <<text, max_tokens, overlap_tokens, sections, chunks, visited, callers, service>>

Next == ChunkStart \/ KeepSection \/ AdaptSection \/ ChunkReturn

Spec == Init /\ [][Next]_vars

-----------------------------------------------------------------------------
(* Vocabulary of the properties.                                           *)

Done == pc = "done"

ChunkIdx == 1..Len(chunks)

RECURSIVE Flatten(_)
Flatten(ss) == IF Len(ss) = 0 THEN <<>> ELSE ss[1] \o Flatten(Tail(ss))

\* The words of a list of texts, in order.
WordsOfAll(ts) == Flatten([k \in 1..Len(ts) |-> Words(ts[k])])

Occurrences(x, xs) == Cardinality({k \in 1..Len(xs) : xs[k] = x})

\* The chunks' own texts (each chunk without its overlap prefix), in order.
OwnTexts == Flatten([k \in 1..Len(visited) |-> visited[k].own])

IsSuffixOf(a, b) == Len(a) <= Len(b) /\ SubSeq(b, Len(b) - Len(a) + 1, Len(b)) = a

\* The chunks that came from the k-th visited section.
ChunksOf(v) == v.first..(v.first + v.count - 1)

\* One atomic unit: a text that, surrounding whitespace apart, has no
\* paragraph break and no sentence boundary.
IsAtomicUnit(t) ==
    Len(SplitParagraphs(Strip(t))) = 1 /\ Len(SplitSentences(Strip(t))) = 1

\* truncate(word_count * 1.3), written out
Estimate(t) == (Len(Words(t)) * 13) \div 10

-----------------------------------------------------------------------------
(* C1: every chunk returned by chunk() has an estimate of at most           *)
(* max_tokens, unless it is a single atomic unit (one sentence, or one      *)
(* paragraph with no sentence boundary) that alone exceeds max_tokens.      *)
C1_BudgetRespected ==
    \A i \in ChunkIdx :
        \/ Estimate(chunks[i].content) <= max_tokens
        \/ IsAtomicUnit(chunks[i].content)

-----------------------------------------------------------------------------
(* C2: every whitespace-delimited word occurrence of the input appears in   *)
(* the content of some returned chunk: each word occurs in the chunks at    *)
(* least as often as in the input.                                          *)
C2_NothingLost ==
    Done =>
        LET input == Words(text)
            output == WordsOfAll([i \in ChunkIdx |-> chunks[i].content])
        IN  \A k \in 1..Len(input) :
                Occurrences(input[k], input) <= Occurrences(input[k], output)

\* An escalated section was split into several chunks, and overlap
\* duplicated some of its words.
C2_Witness ==
    /\ Done
    /\ \E k \in 1..Len(visited) : visited[k].escalated /\ visited[k].count >= 2
    /\ Len(WordsOfAll([i \in ChunkIdx |-> chunks[i].content])) > Len(Words(text))

-----------------------------------------------------------------------------
(* C3: the chunks are in document order: read in order, each without its    *)
(* overlap prefix, their words are exactly the words of the input in the    *)
(* input's order; every chunk ends with its own text.                       *)
C3_DocumentOrder ==
    Done =>
        /\ Len(OwnTexts) = Len(chunks)
        /\ \A i \in ChunkIdx : IsSuffixOf(OwnTexts[i], chunks[i].content)
        /\ WordsOfAll(OwnTexts) = Words(text)

\* Several top-level sections, one of them split into several chunks.
C3_Witness ==
    /\ Done
    /\ Len(visited) >= 2
    /\ \E k \in 1..Len(visited) : visited[k].count >= 2

-----------------------------------------------------------------------------
(* C4: a top-level section that is not escalated becomes exactly one chunk  *)
(* whose metadata has no chunking_method key; when the section begins       *)
(* with a header line the metadata has only heading and section.            *)
C4_NoMethodWhenKept ==
    \A k \in 1..Len(visited) :
        ~visited[k].escalated =>
            /\ visited[k].count = 1
            /\ "chunking_method" \notin chunks[visited[k].first].metadata.keys
            /\ HeaderAt(visited[k].text, 1, 1) =>
                   chunks[visited[k].first].metadata.keys = {"heading", "section"}

-----------------------------------------------------------------------------
(* C5: chunk() passes a top-level section with estimate t to the adaptive   *)
(* orchestrator iff t > max_tokens, or t > 0.8 * max_tokens and the section *)
(* has a level 2-6 header line, or t > 0.8 * max_tokens and the section has *)
(* at least two standalone bold-heading lines; otherwise the section        *)
(* becomes exactly one chunk whose content is the section text.             *)
C5_EscalationTrigger ==
    \A k \in 1..Len(visited) :
        LET s == visited[k].text
            t == Estimate(s)
            trigger == \/ t > max_tokens
                       \/ 10 * t > 8 * max_tokens /\ _has_markdown_subheaders(s)
                       \/ 10 * t > 8 * max_tokens /\ Cardinality(BoldHeadingLines(s)) >= 2
        IN  /\ visited[k].escalated <=> trigger
            /\ ~visited[k].escalated =>
                   visited[k].count = 1 /\ chunks[visited[k].first].content = s

\* Sections escalated by each of the three disjuncts, the last two within
\* budget, and a section that is kept.
C5_Witness ==
    /\ Done
    /\ \E k \in 1..Len(visited) :
           /\ visited[k].escalated
           /\ Estimate(visited[k].text) <= max_tokens
    /\ \E k \in 1..Len(visited) : ~visited[k].escalated

-----------------------------------------------------------------------------
(* C6: the chunks of an escalated section all come from one pass, chosen in *)
(* the order header > bold > structural > fallback, and all carry its tag:  *)
(* markdown_headers if the section has a level 2-6 header line, otherwise   *)
(* bold_headings if it has at least two standalone bold headings, otherwise *)
(* structural_markers if the structural split yields at least two sections, *)
(* otherwise paragraph_split.                                               *)
C6_Tag(s) ==
    IF \E i \in LineStarts(s) : HeaderAt(s, i, 2) THEN "markdown_headers"
    ELSE IF Cardinality(BoldHeadingLines(s)) >= 2 THEN "bold_headings"
    ELSE IF Len(_split_by_structural_markers(s)) >= 2 THEN "structural_markers"
    ELSE "paragraph_split"

C6_OnePassOneTag ==
    \A k \in 1..Len(visited) :
        visited[k].escalated =>
            /\ visited[k].count >= 1
            /\ \A i \in ChunksOf(visited[k]) :
                   /\ "chunking_method" \in chunks[i].metadata.keys
                   /\ chunks[i].metadata.chunking_method = C6_Tag(visited[k].text)

\* A section with two bold headings and a list item went to the bold pass,
\* although the structural pass would have split it too.
C6_Witness ==
    /\ Done
    /\ \E k \in 1..Len(visited) :
           /\ visited[k].pass = "bold"
           /\ Len(_split_by_structural_markers(visited[k].text)) >= 2

-----------------------------------------------------------------------------
(* The overlap windows a chunk text allows: its whole sentences from some   *)
(* sentence to the last one, joined by blanks (the empty window included).  *)
OverlapWindows(prev) ==
    LET sentences == SplitSentences(prev)
        n == Len(sentences)
    IN  {Strip(Join(SubSeq(sentences, j, n), <<" ">>)) : j \in 1..(n + 1)}

FallbackChunkIs(v, j, W) ==
    chunks[v.first + j - 1].content = W \o <<NL, NL>> \o v.own[j]

(* C7 as stated: in the fallback pass, when packing yields more than one    *)
(* chunk, every chunk after the first is W, a blank line and the chunk's    *)
(* own text, W being a non-empty suffix of the whole sentences of the       *)
(* preceding chunk's own text; the first chunk is unchanged and all chunks  *)
(* are tagged paragraph_split.                                              *)
C7_NonEmptyOverlap ==
    \A k \in 1..Len(visited) :
        LET v == visited[k]
        IN  v.pass = "fallback" /\ v.count > 1 =>
                /\ chunks[v.first].content = v.own[1]
                /\ \A i \in ChunksOf(v) : chunks[i].metadata.chunking_method = "paragraph_split"
                /\ \A j \in 2..v.count :
                       \E W \in OverlapWindows(v.own[j - 1]) :
                           Len(W) > 0 /\ FallbackChunkIs(v, j, W)

\* The last sentence of a chunk text that has a word (the empty text when
\* there is none).
LastSentence(prev) ==
    LET sentences == SplitSentences(prev)
        withWord == {j \in 1..Len(sentences) : ~IsBlank(sentences[j])}
    IN  IF withWord = {} THEN <<>>
        ELSE sentences[CHOOSE j \in withWord : \A m \in withWord : m <= j]

\* No sentence of the preceding chunk can be repeated: the window budget
\* 2 * overlap_tokens is 0, the chunk has no word, or its last sentence
\* alone is over the window budget.
NothingToRepeat(prev) ==
    \/ 2 * overlap_tokens = 0
    \/ IsBlank(prev)
    \/ Estimate(LastSentence(prev)) > 2 * overlap_tokens

(* C7 amended: as stated, except that W is empty in three cases and in no   *)
(* other: when 2 * overlap_tokens is 0, when the preceding chunk's own text *)
(* has no word, and when the last sentence of that text alone exceeds       *)
(* 2 * overlap_tokens.  In every other case W is a non-empty suffix of the  *)
(* whole sentences of the preceding chunk's own text.                       *)
C7_OverlapPrefix ==
    \A k \in 1..Len(visited) :
        LET v == visited[k]
        IN  v.pass = "fallback" /\ v.count > 1 =>
                /\ Len(v.own) = v.count
                /\ chunks[v.first].content = v.own[1]
                /\ \A i \in ChunksOf(v) : chunks[i].metadata.chunking_method = "paragraph_split"
                /\ \A j \in 2..v.count :
                       \E W \in OverlapWindows(v.own[j - 1]) :
                           /\ FallbackChunkIs(v, j, W)
                           /\ Len(W) = 0 <=> NothingToRepeat(v.own[j - 1])

\* A fallback section of several chunks, one with a non-empty window.
C7_Witness ==
    \E k \in 1..Len(visited) :
        LET v == visited[k]
        IN  /\ v.pass = "fallback" /\ v.count > 1
            /\ \E j \in 2..v.count :
                   \E W \in OverlapWindows(v.own[j - 1]) :
                       Len(W) > 0 /\ FallbackChunkIs(v, j, W)

-----------------------------------------------------------------------------
(* C8: for an input that is empty or only whitespace, chunk() returns       *)
(* exactly one chunk whose content is the input unchanged and whose         *)
(* metadata is empty, and the orchestrator is not invoked.                  *)
C8_BlankInput ==
    IsBlank(text) =>
        /\ \A k \in 1..Len(visited) : ~visited[k].escalated
        /\ Done => chunks = <<[content |-> text, metadata |-> EmptyMeta]>>

\* chunk() has returned for a non-empty input of whitespace only.
C8_Witness == Done /\ IsBlank(text) /\ Len(text) > 0

-----------------------------------------------------------------------------
(* The sentences of the input: each paragraph's sentences, in order.       *)
InputSentences ==
    LET paragraphs == SplitParagraphs(text)
    IN  Flatten([k \in 1..Len(paragraphs) |-> SplitSentences(paragraphs[k])])

Stripped(ts) == [k \in 1..Len(ts) |-> Strip(ts[k])]

\* The sentence s is kept whole and alone: it is the own text of as many
\* chunks as it occurs in the input, and the only chunk when it is the input.
KeptWholeAndAlone(s) ==
    /\ Occurrences(Strip(s), Stripped(OwnTexts)) >= Occurrences(Strip(s), Stripped(InputSentences))
    /\ Strip(text) = Strip(s) =>
           Len(chunks) = 1 /\ chunks[1].content = Strip(s)

(* C9 as stated: a single sentence whose own estimate exceeds max_tokens is *)
(* never truncated, split or dropped: it is the only chunk when it is the   *)
(* whole input, and otherwise the entire own text of a chunk that holds no  *)
(* other sentence.                                                          *)
C9_SentenceKept ==
    Done =>
        \A k \in 1..Len(InputSentences) :
            Estimate(InputSentences[k]) > max_tokens =>
                KeptWholeAndAlone(InputSentences[k])

\* The pieces the pass taken for the visited section v cuts it into: the
\* section itself when it is kept, handed whole to the packer by the
\* fallback pass, or left uncut by the pass.
PiecesOf(v) ==
    IF v.pass = "header" THEN TextsIn(_split_by_headers(v.text))
    ELSE IF v.pass = "bold" THEN TextsIn(_split_by_bold_headings(v.text))
    ELSE IF v.pass = "structural" THEN TextsIn(_split_by_structural_markers(v.text))
    ELSE <<v.text>>

\* The sentences of a text: each paragraph's sentences, in order.
SentencesOf(t) ==
    LET paragraphs == SplitParagraphs(t)
    IN  Flatten([k \in 1..Len(paragraphs) |-> SplitSentences(paragraphs[k])])

\* The sentences no splitter pass has cut: the sentences of the pieces of
\* all the sections, in order.
UncutSentences ==
    Flatten([k \in 1..Len(visited) |->
                LET pieces == PiecesOf(visited[k])
                IN  Flatten([j \in 1..Len(pieces) |-> SentencesOf(pieces[j])])])

\* A line of s after its first begins with a character a header, a bold
\* heading, a list item or a rule begins with.
LaterLineMarked(s) ==
    \E i \in LineStarts(s) : i > 1 /\ s[i] \in ({"#", "*", "-"} \cup Digits)

\* xs occurs in ys as a run of neighbours
IsRunOf(xs, ys) ==
    \E d \in 0..(Len(ys) - Len(xs)) : SubSeq(ys, d + 1, d + Len(xs)) = xs

(* C9 amended: a single sentence whose own estimate exceeds max_tokens is   *)
(* never truncated or dropped (its words stand in the chunks' own texts, in *)
(* order and side by side), and only a splitter pass can split it: a        *)
(* sentence of one line or of several that no pass has cut is the only      *)
(* chunk when it is the whole input, and otherwise the entire own text of   *)
(* a chunk that holds no other sentence.  A pass cuts at line starts only,  *)
(* so no pass cuts a sentence none of whose later lines begins with #, *,   *)
(* - or a digit.                                                            *)
C9_UncutSentenceKept ==
    Done =>
        /\ \A k \in 1..Len(InputSentences) :
               LET s == InputSentences[k]
               IN  Estimate(s) > max_tokens =>
                       /\ IsRunOf(Words(s), WordsOfAll(OwnTexts))
                       /\ ~LaterLineMarked(Strip(s)) =>
                              Occurrences(Strip(s), Stripped(UncutSentences))
                                  >= Occurrences(Strip(s), Stripped(InputSentences))
        /\ \A k \in 1..Len(UncutSentences) :
               LET s == UncutSentences[k]
               IN  Estimate(s) > max_tokens =>
                       /\ Occurrences(Strip(s), Stripped(OwnTexts))
                              >= Occurrences(Strip(s), Stripped(UncutSentences))
                       /\ Strip(text) = Strip(s) =>
                              Len(chunks) = 1 /\ chunks[1].content = Strip(s)

\* An oversized sentence of two lines, the second a list item, lies in a
\* section the header pass took: no pass cut it, and it is the own text of
\* a chunk.
C9_Witness ==
    /\ Done
    /\ \E k \in 1..Len(visited) :
           /\ visited[k].pass = "header"
           /\ \E j \in 1..Len(InputSentences) :
                  LET s == InputSentences[j]
                  IN  /\ Estimate(s) > max_tokens
                      /\ LaterLineMarked(Strip(s))
                      /\ \E m \in 1..Len(UncutSentences) : Strip(UncutSentences[m]) = Strip(s)
                      /\ \E i \in 1..Len(visited[k].own) : visited[k].own[i] = Strip(s)

-----------------------------------------------------------------------------
(* C10: chunk() terminates and returns at least one chunk: every step of   *)
(* chunk() lowers the number of steps it has left, which is never negative  *)
(* (one step per top-level section, of which there are at most as many as   *)
(* the text has characters), it leaves chunk() either returned or at a      *)
(* position from which it steps again, and what is returned has at least    *)
(* one chunk.                                                               *)
StepsLeft ==
    IF pc = "start" THEN Len(text) + 3
    ELSE IF pc = "loop" THEN Len(sections) + 1
    ELSE 0

C10_TerminatesNonEmpty ==
    [][/\ StepsLeft' < StepsLeft
       /\ StepsLeft' >= 0
       /\ Done' \/ pc' = "loop"
       /\ Done' => Len(chunks') >= 1]_vars

\* chunk() has returned after the orchestrator ran its fallback pass.
C10_Witness ==
    /\ Done
    /\ Len(chunks) >= 1
    /\ \E k \in 1..Len(visited) : visited[k].pass = "fallback" /\ visited[k].count >= 2

-----------------------------------------------------------------------------
(* The constructor as it is written: it stores max_tokens and              *)
(* overlap_tokens without looking at them, so an engine can be built with   *)
(* any integer; MaxBelow bounds how far below 0 the sampled max_tokens go.  *)

MaxBelow == 1

InitUnvalidated ==
    /\ text \in Texts
    /\ max_tokens \in (0 - MaxBelow)..1
    /\ overlap_tokens \in 0..MaxOverlap
    /\ pc = "start"
    /\ sections = <<>>
    /\ chunks = <<>>
    /\ visited = <<>>
    /\ OneCall
    /\ NoService

SpecUnvalidated == InitUnvalidated /\ [][Next]_vars

(* C11: an engine with a non-positive max_tokens is rejected at             *)
(* construction, so chunk() never runs on an engine whose max_tokens is     *)
(* below 1 and the misconfiguration never surfaces during a split.          *)
C11_RejectedAtConstruction ==
    pc \in {"loop", "done"} => max_tokens >= 1

-----------------------------------------------------------------------------
(* Several calls of chunk() on one engine: the caller takes what a call     *)
(* returned and calls again, with any of the documents CallTexts, while a   *)
(* second call runs on the same engine in another thread.  Each call has    *)
(* its own locals (sections, chunks); the calls share the engine's          *)
(* max_tokens and overlap_tokens.                                           *)

\* a sentence and a header, two paragraphs, two bullet items
CallTexts ==
    { <<"g", " ", "h", ".", NL, "#", " ", "a">>,
      <<"g", " ", "h", ".", NL, NL, "g", " ", "h", ".">>,
      <<"-", " ", "e", " ", "f", NL, "-", " ", "e", " ", "f">> }

InitCalls ==
    /\ text \in CallTexts
    /\ max_tokens \in 1..MaxTokens
    /\ overlap_tokens \in 0..MaxOverlap
    /\ pc = "start"
    /\ sections = <<>>
    /\ chunks = <<>>
    /\ visited = <<>>
    /\ results = {}
    /\ \E t \in CallTexts : other = [NoCall EXCEPT !.pc = "start", !.text = t]
    /\ window = NoWindow
    /\ split = NoSplit
    /\ NoService

\* the caller takes the returned list and calls chunk() again: a new call
\* starts with no locals (chunks = [] is made anew in it)
ChunkCall ==
    /\ pc = "done"
    /\ results' = results \cup {[text |-> text, chunks |-> chunks]}
    /\ \E t \in CallTexts : text' = t
    /\ pc' = "start"
    /\ sections' = <<>> /\ chunks' = <<>> /\ visited' = <<>>
    /\ UNCHANGED <<max_tokens, overlap_tokens, other, window, split, service>>

\* the second call: sections = self._split_by_headers(markdown_text)
OtherStart ==
    /\ other.pc = "start"
    /\ other' = [other EXCEPT !.pc = "loop", !.sections = _split_by_headers(other.text)]
    /\ UNCHANGED <<text, max_tokens, overlap_tokens, pc, sections, chunks, visited, results, window, split, service>>

\* the second call: one round of the loop over its sections
OtherSection ==
    /\ other.pc = "loop" /\ Len(other.sections) > 0
    /\ LET s == other.sections[1]
           new == IF needs_adaptive_splitting(s.text)
                  THEN AsChunks(_split_large_section_adaptive(s.text, s.metadata))
                  ELSE <<[content |-> s.text, metadata |-> s.metadata]>>
       IN  other' = [other EXCEPT !.sections = Tail(@), !.chunks = @ \o new]
    /\ UNCHANGED <<text, max_tokens, overlap_tokens, pc, sections, chunks, visited, results, window, split, service>>

\* the second call: return chunks
OtherReturn ==
    /\ other.pc = "loop" /\ Len(other.sections) = 0
    /\ other' = [other EXCEPT !.pc = "done"]
    /\ results' = results \cup {[text |-> other.text, chunks |-> other.chunks]}
    /\ UNCHANGED <<text, max_tokens, overlap_tokens, pc, sections, chunks, visited, window,
                   split, service>>

NextCalls ==
    \/ ChunkStart \/ KeepSection \/ AdaptSection \/ ChunkReturn \/ ChunkCall
    \/ OtherStart \/ OtherSection \/ OtherReturn

SpecCalls == InitCalls /\ [][NextCalls]_vars

-----------------------------------------------------------------------------
(* The service: main.py's process_pdf with the startup lifespan, and the    *)
(* embedding tasks of embedder.py.  The embedding API is the environment:   *)
(* every request to it ends in one of Outcomes.                             *)

MaxRetries == 2

\* settings.embedding_dimensions
expected_dimensions == 1536

\* the retries of the client itself: AsyncOpenAI(api_key=...) is built
\* without max_retries, which leaves the default of the openai package
client_max_retries == 2

\* EmbeddingGenerator.__init__: retry_delay_ms = 1000
retry_delay_ms == 1000

Outcomes == {"ok", "rate_limit", "error", "wrong_dimensions"}

RECURSIVE Pow2(_)
Pow2(n) == IF n = 0 THEN 1 ELSE 2 * Pow2(n - 1)

\* what the API returns for input t: the embedding of t
EmbeddingOf(t, dimensions) == [of |-> t, dimensions |-> dimensions]

NoEmbedding == EmbeddingOf(<<>>, 0)

\* the coroutine self._generate_with_retry(text), attempt = 0, not yet run.
\* calls counts the calls of self.client.embeddings.create, requests the
\* requests the client has sent to the API for them, sent those of the
\* present call; received is the length of the last vector the API answered
\* with
NewTask(t) ==
    [text |-> t, attempt |-> 0, state |-> "call", calls |-> 0, sent |-> 0, requests |-> 0,
     delays |-> <<>>, embedding |-> NoEmbedding, received |-> 0]

Initialised ==
    /\ components.pdf_converter
    /\ components.markdown_chunker
    /\ components.embedding_generator

Responded(status, document_chunks) ==
    /\ response' = [status |-> status, total_chunks |-> Len(document_chunks),
                    chunks |-> document_chunks]
    /\ request' = [request EXCEPT !.pc = "responded"]

chunker == <<text, max_tokens, overlap_tokens, pc, sections, chunks, visited>>

InitService ==
    /\ text = <<>>
    /\ max_tokens \in 1..MaxTokens
    /\ overlap_tokens \in 0..MaxOverlap
    /\ pc = "idle"
    /\ sections = <<>>
    /\ chunks = <<>>
    /\ visited = <<>>
    /\ OneCall
    /\ entry \in {"main", "serverless"}
    /\ components = NoComponents
    /\ max_retries \in 0..MaxRetries
    /\ request = NoRequest
    /\ tasks = <<>>
    /\ finished = <<>>
    /\ response = NoResponse

\* lifespan(): the three globals are set before the app serves a request;
\* served by uvicorn from main.py only (Mangum runs with lifespan = "off")
Startup ==
    /\ entry = "main" /\ ~Initialised /\ request.pc = "none"
    /\ components' = [pdf_converter |-> TRUE, markdown_chunker |-> TRUE,
                      embedding_generator |-> TRUE]
    /\ UNCHANGED <<chunker, callers, entry, max_retries, request, tasks, finished, response>>

\* a request reaches the body of process_pdf
Receive ==
    /\ request.pc = "none"
    /\ entry = "main" => Initialised
    /\ \E d, f, p \in BOOLEAN :
           request' = [pc |-> "validate", document_type_ok |-> d, filename_ok |-> f,
                       pdf_ok |-> p]
    /\ UNCHANGED <<chunker, callers, entry, components, max_retries, tasks, finished, response>>

\* the two validations; HTTPException(400) passes through except HTTPException
Validate ==
    /\ request.pc = "validate"
    /\ IF ~request.document_type_ok \/ ~request.filename_ok
       THEN Responded(400, <<>>)
       ELSE request' = [request EXCEPT !.pc = "convert"] /\ UNCHANGED response
    /\ UNCHANGED <<chunker, callers, entry, components, max_retries, tasks, finished>>

\* markdown_text = await pdf_converter.convert_to_markdown(...): on None an
\* AttributeError, on a bad PDF the converter's Exception; both become 500.
\* Then chunks = markdown_chunker.chunk(markdown_text) is called.
Convert ==
    /\ request.pc = "convert"
    /\ IF ~components.pdf_converter \/ ~request.pdf_ok
       THEN Responded(500, <<>>) /\ UNCHANGED <<text, pc>>
       ELSE /\ \E t \in CallTexts : text' = t
            /\ pc' = "start"
            /\ request' = [request EXCEPT !.pc = "chunk"]
            /\ UNCHANGED response
    /\ UNCHANGED <<max_tokens, overlap_tokens, sections, chunks, visited,
                   callers, entry, components, max_retries, tasks, finished>>

\* generate_embeddings(chunk_texts): one task per text, in the order of texts
Embed ==
    /\ request.pc = "chunk" /\ pc = "done"
    /\ tasks' = [k \in 1..Len(chunks) |-> NewTask(chunks[k].content)]
    /\ request' = [request EXCEPT !.pc = "embed"]
    /\ UNCHANGED <<chunker, callers, entry, components, max_retries, finished, response>>

\* Mutant: the enclosing attempt catches the Exception of the inner one and
\* goes through its own except clause again.
Unwound_Caught(t) ==
    IF t.attempt = 0 THEN [t EXCEPT !.state = "raised"]
    ELSE [t EXCEPT !.state = "sleep", !.attempt = @ - 1,
                   !.delays = Append(@, retry_delay_ms * Pow2(t.attempt - 1))]

\* raise Exception(...) in the last attempt: in each enclosing attempt it
\* arrives inside the except clause (lines 67, 79), where no clause of that
\* try catches it, so it leaves them all without a pause and the task raises
Unwound(t) ==
    [t EXCEPT !.state = "raised"]

\* the two except clauses of _generate_with_retry act alike: below max_retries
\* sleep retry_delay_ms * 2^attempt and call again, else raise Exception(...)
Failed(t) ==
    IF t.attempt < max_retries
    THEN [t EXCEPT !.state = "sleep", !.delays = Append(@, retry_delay_ms * Pow2(t.attempt))]
    ELSE Unwound(t)

\* the lengths of the vectors the API may answer with
Dimensions == {expected_dimensions - 1, expected_dimensions, expected_dimensions + 1}

\* what self.client.embeddings.create(...) does for the text t: it raises
\* (no vector) or answers with a vector of some length
ApiAnswers(t) ==
    {[outcome |-> o, embedding |-> NoEmbedding] : o \in {"rate_limit", "error"}}
    \cup {[outcome |-> "ok", embedding |-> EmbeddingOf(t, expected_dimensions)]}
    \cup {[outcome |-> "wrong_dimensions", embedding |-> EmbeddingOf(t, d)] :
              d \in Dimensions \ {expected_dimensions}}

\* Mutant: no dimension check, the vector is returned as it came.
Received_Unchecked(t, embedding) ==
    [t EXCEPT !.state = "returned", !.embedding = embedding]

\* embedding = response.data[0].embedding; a length other than
\* expected_dimensions raises ValueError inside the try, which the clause
\* except Exception catches
Received(t, embedding) ==
    IF embedding.dimensions # expected_dimensions
    THEN Failed(t)
    ELSE [t EXCEPT !.state = "returned", !.embedding = embedding]

\* the first turn of a task: it runs up to
\* await self.client.embeddings.create(...), where the request is made and
\* the task is suspended; the event loop runs the tasks of gather in their
\* order
TaskSend ==
    /\ \E i \in 1..Len(tasks) :
           /\ tasks[i].state = "call"
           /\ \A j \in 1..(i - 1) : tasks[j].state # "call"
           /\ tasks' = [tasks EXCEPT ![i] = [@ EXCEPT !.state = "await", !.calls = @ + 1,
                                                     !.sent = 1, !.requests = @ + 1]]
    /\ UNCHANGED <<chunker, callers, entry, components, max_retries, request, finished,
                   response>>

\* inside the await of embeddings.create: the client got a failure it
\* retries itself (a connection error, status 408, 409, 429 or 5xx) and,
\* having retried fewer than client_max_retries times, sends the request
\* again; the task stays suspended
ClientRetry ==
    /\ \A j \in 1..Len(tasks) : tasks[j].state # "call"
    /\ \E i \in 1..Len(tasks) :
           /\ tasks[i].state = "await"
           /\ tasks[i].sent <= client_max_retries
           /\ tasks' = [tasks EXCEPT ![i] = [@ EXCEPT !.sent = @ + 1, !.requests = @ + 1]]
    /\ UNCHANGED <<chunker, callers, entry, components, max_retries, request, finished,
                   response>>

\* embeddings.create returns or raises (after the first request or after
\* one the client sent again), which resumes the task: the dimension check
\* and the return, or an except clause up to its asyncio.sleep or its raise.
\* No answer is handled before every task of gather has had its first turn.
TaskAnswer ==
    /\ \A j \in 1..Len(tasks) : tasks[j].state # "call"
    /\ \E i \in 1..Len(tasks) :
           /\ tasks[i].state = "await"
           /\ \E a \in ApiAnswers(tasks[i].text) :
                  LET t == [tasks[i] EXCEPT !.sent = 0,
                                            !.received =
                                                IF a.embedding = NoEmbedding THEN @
                                                ELSE a.embedding.dimensions]
                      u == IF a.outcome \in {"rate_limit", "error"}
                           THEN Failed(t)
                           ELSE Received(t, a.embedding)
                  IN  /\ a.outcome \in Outcomes
                      /\ tasks' = [tasks EXCEPT ![i] = u]
                      /\ finished' = IF u.state = "returned"
                                     THEN Append(finished, i)
                                     ELSE finished
    /\ UNCHANGED <<chunker, callers, entry, components, max_retries, request, response>>

\* asyncio.sleep is over: return await self._generate_with_retry(text,
\* attempt + 1), which runs up to its await of embeddings.create
TaskWake ==
    /\ \E i \in 1..Len(tasks) :
           /\ tasks[i].state = "sleep"
           /\ tasks' = [tasks EXCEPT ![i] = [@ EXCEPT !.state = "await", !.attempt = @ + 1,
                                                     !.calls = @ + 1, !.sent = 1,
                                                     !.requests = @ + 1]]
    /\ UNCHANGED <<chunker, callers, entry, components, max_retries, request, finished,
                   response>>

\* results in the order the tasks returned
Gathered_CompletionOrder == [k \in 1..Len(finished) |-> tasks[finished[k]].embedding]

\* asyncio.gather(*tasks): the results in the order of the tasks
Gathered == [k \in 1..Len(tasks) |-> tasks[k].embedding]

\* for idx, (chunk, embedding) in enumerate(zip(chunks, embeddings))
DocumentChunks(cs, embeddings) ==
    [k \in 1..(IF Len(cs) < Len(embeddings) THEN Len(cs) ELSE Len(embeddings)) |->
        [chunk_index |-> k - 1, content |-> cs[k].content,
         embedding |-> embeddings[k], metadata |-> cs[k].metadata]]

\* every task returned: gather returns, process_pdf builds the response
Respond200 ==
    /\ request.pc = "embed"
    /\ \A i \in 1..Len(tasks) : tasks[i].state = "returned"
    /\ Responded(200, DocumentChunks(chunks, Gathered))
    /\ UNCHANGED <<chunker, callers, entry, components, max_retries, tasks, finished>>

\* Mutant: gather(*tasks, return_exceptions=True) and a response built from
\* whatever the tasks left behind
Respond500_Partial ==
    /\ request.pc = "embed"
    /\ \E i \in 1..Len(tasks) : tasks[i].state = "raised"
    /\ Responded(200, DocumentChunks(chunks, Gathered))
    /\ UNCHANGED <<chunker, callers, entry, components, max_retries, tasks, finished>>

\* a task raised: gather raises, process_pdf turns it into HTTPException(500)
Respond500 ==
    /\ request.pc = "embed"
    /\ \E i \in 1..Len(tasks) : tasks[i].state = "raised"
    /\ Responded(500, <<>>)
    /\ UNCHANGED <<chunker, callers, entry, components, max_retries, tasks, finished>>

NextService ==
    \/ Startup \/ Receive \/ Validate \/ Convert
    \/ ChunkStart \/ KeepSection \/ AdaptSection \/ ChunkReturn
    \/ Embed \/ TaskSend \/ ClientRetry \/ TaskAnswer \/ TaskWake
    \/ Respond200 \/ Respond500

SpecService == InitService /\ [][NextService]_vars

-----------------------------------------------------------------------------
(* C13: whatever the interleaving and completion order of the embedding     *)
(* tasks, the i-th DocumentChunk of a successful response (i counted from   *)
(* 0) has chunk_index = i, the content and metadata of the i-th chunk the   *)
(* chunker returned, and the embedding generated from that content;         *)
(* total_chunks is the number of chunks the chunker returned.               *)
C13_EmbeddingsInChunkOrder ==
    response.status = 200 =>
        /\ response.total_chunks = Len(chunks)
        /\ Len(response.chunks) = Len(chunks)
        /\ \A k \in 1..Len(response.chunks) :
               LET d == response.chunks[k]
               IN  /\ d.chunk_index = k - 1
                   /\ d.content = chunks[k].content
                   /\ d.metadata = chunks[k].metadata
                   /\ d.embedding = EmbeddingOf(chunks[k].content, expected_dimensions)

\* A successful response for two different chunks whose tasks returned in
\* reverse order, the first one after a retry.
C13_Witness ==
    /\ response.status = 200
    /\ Len(chunks) = 2 /\ chunks[1].content # chunks[2].content
    /\ finished = <<2, 1>>
    /\ tasks[1].attempt >= 1

-----------------------------------------------------------------------------
(* The running estimate the packer keeps: the sum of the estimates of the   *)
(* parts (paragraphs or sentences) accumulated so far.                      *)
RECURSIVE RunningEstimate(_)
RunningEstimate(parts) ==
    IF Len(parts) = 0 THEN 0
    ELSE Estimate(parts[1]) + RunningEstimate(Tail(parts))

\* The parts a packed chunk text was assembled from: its paragraphs, or the
\* sentences of its only paragraph.
PartsOf(t) ==
    IF Len(SplitParagraphs(t)) >= 2 THEN SplitParagraphs(t) ELSE SplitSentences(t)

(* C14: in the packer without overlap, every chunk assembled from two or    *)
(* more paragraphs (or two or more sentences of one paragraph) has an       *)
(* estimate of at most max_tokens, the running estimate kept while          *)
(* accumulating being never smaller than the estimate of the joined text.   *)
C14_RunningEstimateBounds ==
    \A k \in 1..Len(visited) :
        visited[k].escalated =>
            \A j \in 1..Len(visited[k].own) :
                LET t == visited[k].own[j]
                IN  Len(PartsOf(t)) >= 2 =>
                        /\ Estimate(t) <= RunningEstimate(PartsOf(t))
                        /\ Estimate(t) <= max_tokens

-----------------------------------------------------------------------------
(* _get_overlap_text() on its own: the preceding chunk is a run of          *)
(* sentences, the budget is self.increased_overlap.                         *)

MaxSentences == 3
MaxWindowOverlap == 2

\* sentences of one, two and three words
Sentences ==
    { <<"i", ".">>,
      <<"g", " ", "h", ".">>,
      <<"j", " ", "k", " ", "l", "!">> }

\* the texts of a preceding chunk: sentences separated by one blank, one tab
\* or one other whitespace character
ChunkTexts ==
    UNION {{Join(ss, <<sep>>) : ss \in [1..n -> Sentences],
                               sep \in {" ", "\t"} \cup UnicodeWhitespace} :
               n \in 0..MaxSentences}

InitOverlap ==
    /\ text = <<>>
    /\ max_tokens \in 1..MaxTokens
    /\ overlap_tokens \in (0 - MaxBelow)..MaxWindowOverlap
    /\ pc = "idle"
    /\ sections = <<>>
    /\ chunks = <<>>
    /\ visited = <<>>
    /\ results = {}
    /\ other = NoCall
    /\ \E t \in ChunkTexts : window = [NoWindow EXCEPT !.pc = "call", !.text = t]
    /\ split = NoSplit
    /\ NoService

\* overlap_text = self._get_overlap_text(prev_text, overlap)
GetOverlap ==
    /\ window.pc = "call"
    /\ window' = [window EXCEPT !.pc = "returned",
                                !.overlap = _get_overlap_text(window.text, increased_overlap)]
    /\ UNCHANGED <<chunker, results, other, split, service>>

NextOverlap == GetOverlap

SpecOverlap == InitOverlap /\ [][NextOverlap]_vars

\* the sentences of the preceding chunk from the j-th on
SentencesFrom(t, j) ==
    LET sentences == SplitSentences(t)
    IN  SubSeq(sentences, j, Len(sentences))

(* C15: the overlap window is a run of whole sentences that ends at the     *)
(* preceding chunk's last sentence; walking backwards, selection stops at   *)
(* the first sentence that would push the running estimate over the budget  *)
(* B = 2 * overlap_tokens; the estimate of the window text is at most B;    *)
(* and the window is empty when B <= 0.                                     *)
C15_WindowWithinBudget ==
    window.pc = "returned" =>
        LET B == increased_overlap
            n == Len(SplitSentences(window.text))
        IN  IF B <= 0 THEN window.overlap = <<>>
            ELSE /\ \E j \in 1..(n + 1) :
                        /\ window.overlap = Strip(Join(SentencesFrom(window.text, j), <<" ">>))
                        /\ RunningEstimate(SentencesFrom(window.text, j)) <= B
                        /\ j > 1 => RunningEstimate(SentencesFrom(window.text, j - 1)) > B
                 /\ Estimate(window.overlap) <= B

-----------------------------------------------------------------------------
(* Inputs made of paragraphs: any arrangement of blank lines between them,  *)
(* an empty paragraph included.                                             *)

MaxParagraphs == 3

Paragraphs ==
    { <<>>,
      <<"g", " ", "h", ".">>,
      <<"#", "#", " ", "b", " ", "c">>,
      <<"*", "*", "d", "d", "d", "d", "d", "d", "*", "*">>,
      <<"-", " ", "e", " ", "f">> }

ParagraphTexts ==
    UNION {{Join(ps, <<NL, NL>>) : ps \in [1..n -> Paragraphs]} : n \in 1..MaxParagraphs}

InitParagraphs ==
    /\ text \in ParagraphTexts
    /\ max_tokens \in 1..MaxTokens
    /\ overlap_tokens \in 0..MaxOverlap
    /\ pc = "start"
    /\ sections = <<>>
    /\ chunks = <<>>
    /\ visited = <<>>
    /\ OneCall
    /\ NoService

SpecParagraphs == InitParagraphs /\ [][Next]_vars

\* the text has a character that is not whitespace
HasContent(t) == \E i \in 1..Len(t) : ~IsSpace(t[i])

(* C16: for an input with some non-whitespace content, every chunk that     *)
(* chunk() returns has at least one non-whitespace character, however the   *)
(* blank lines are arranged between the paragraphs; so process_pdf hands    *)
(* no empty text to the embedding service.                                  *)
C16_NoBlankChunk ==
    (pc = "done" /\ HasContent(text)) =>
        \A k \in 1..Len(chunks) : HasContent(chunks[k].content)

-----------------------------------------------------------------------------
\* a header line (levels 1-6) after the first line of the text
HeaderAfterFirstLine(t) == \E i \in LineStarts(t) \ {1} : HeaderAt(t, i, 1)

\* the chunks chunk() made of the k-th top-level section
ChunksOfSection(k) ==
    SubSeq(chunks, visited[k].first, visited[k].first + visited[k].count - 1)

(* C17: a top-level section of chunk()'s header split has no header line    *)
(* (levels 1-6) after its first line; so when the header pass runs on it,   *)
(* the inner header split returns the section itself and nothing else, and  *)
(* a section over the budget that begins with a level 2-6 header is packed  *)
(* by paragraphs without overlap: it never reaches the bold, structural or  *)
(* fallback pass.                                                           *)
C17_OneHeaderPerSection ==
    /\ \A k \in 1..Len(sections) : ~HeaderAfterFirstLine(sections[k].text)
    /\ \A k \in 1..Len(visited) :
           LET s == visited[k]
           IN  /\ ~HeaderAfterFirstLine(s.text)
               /\ s.pass = "header" =>
                      _split_by_headers(s.text) = <<Sec(s.text, s.metadata)>>
               /\ (HeaderAt(s.text, 1, 2) /\ Estimate(s.text) > max_tokens) =>
                      /\ s.escalated /\ s.pass = "header"
                      /\ ChunksOfSection(k) = AsChunks(Packed(s.text, s.metadata))

\* a document cut into two sections; the second begins with a level-2
\* header, is over the budget and went through the header pass
C17_Witness ==
    /\ pc = "done" /\ Len(visited) = 2
    /\ HeaderAt(visited[2].text, 1, 2)
    /\ Estimate(visited[2].text) > max_tokens
    /\ visited[2].pass = "header"
    /\ ChunksOfSection(2) = AsChunks(Packed(visited[2].text, visited[2].metadata))

-----------------------------------------------------------------------------
\* the waits of a task so far are retry_delay_ms * 2^attempt for the
\* attempts that failed, a task waits only below max_retries, and it has
\* raised only out of the attempt numbered max_retries
BackoffThenRaise(t) ==
    /\ Len(t.delays) = (IF t.state = "sleep" THEN t.attempt + 1 ELSE t.attempt)
    /\ \A k \in 1..Len(t.delays) : t.delays[k] = retry_delay_ms * 2^(k - 1)
    /\ t.state = "sleep" => t.attempt < max_retries
    /\ t.state = "raised" => t.attempt = max_retries

(* C18: for one text _generate_with_retry sends at most max_retries + 1     *)
(* requests to the embedding API.  After a failed attempt (rate limit,      *)
(* other error, wrong dimension count) with attempt < max_retries it waits  *)
(* retry_delay_ms * 2^attempt and tries once more; it raises after the      *)
(* (max_retries + 1)-th failure, and the failure of an inner retry is not   *)
(* retried by the attempts that enclose it.                                 *)
C18_BoundedRequests ==
    \A i \in 1..Len(tasks) :
        /\ tasks[i].requests <= max_retries + 1
        /\ BackoffThenRaise(tasks[i])

(* C18 amended: for one text _generate_with_retry calls                     *)
(* self.client.embeddings.create at most max_retries + 1 times, once per    *)
(* attempt, and the client sends between one and client_max_retries + 1     *)
(* requests for each call, so at most                                       *)
(* (client_max_retries + 1) * (max_retries + 1) requests reach the API.     *)
(* The waits, the raise after the (max_retries + 1)-th failed call and the  *)
(* inner failure not being retried by the enclosing attempts are as stated. *)
C18_BoundedCalls ==
    \A i \in 1..Len(tasks) :
        LET t == tasks[i]
        IN  /\ t.calls <= max_retries + 1
            /\ t.calls = (IF t.state = "call" THEN t.attempt ELSE t.attempt + 1)
            /\ t.state = "raised" => t.calls = max_retries + 1
            /\ t.calls <= t.requests
            /\ t.requests <= (client_max_retries + 1) * t.calls
            /\ t.requests <= (client_max_retries + 1) * (max_retries + 1)
            /\ t.state = "await" => t.sent >= 1 /\ t.sent <= client_max_retries + 1
            /\ BackoffThenRaise(t)

\* a task whose three calls all failed, each after the client had sent its
\* request three times, with waits of 1000 and 2000 ms between the calls,
\* and whose exception has left the outermost attempt
C18_Witness ==
    \E i \in 1..Len(tasks) :
        /\ max_retries = 2
        /\ tasks[i].state = "raised"
        /\ tasks[i].calls = 3
        /\ tasks[i].requests = 9
        /\ tasks[i].delays = <<1000, 2000>>

-----------------------------------------------------------------------------
\* the request passed both validations of process_pdf
ValidRequest == request.document_type_ok /\ request.filename_ok

\* the embedding of some chunk failed after its retries were used up
SomeTaskRaised == \E i \in 1..Len(tasks) : tasks[i].state = "raised"

(* C19: process_pdf is all-or-nothing.  When the conversion of the PDF      *)
(* fails, or the embedding of one chunk fails after its retries, the        *)
(* request ends with 500 and no response holds some of the chunks; a        *)
(* successful response holds every chunk of the document, each with its     *)
(* embedding.  A validation error (document_type, filename) ends with 400   *)
(* and never with 500.                                                      *)
C19_AllOrNothing ==
    request.pc = "responded" =>
        /\ response.status \in {200, 400, 500}
        /\ ~ValidRequest <=> response.status = 400
        /\ (ValidRequest /\ ~request.pdf_ok) => response.status = 500
        /\ SomeTaskRaised => response.status = 500
        /\ response.status # 200 => response.chunks = <<>> /\ response.total_chunks = 0
        /\ response.status = 200 =>
               /\ Len(response.chunks) = Len(chunks) /\ Len(chunks) >= 1
               /\ \A k \in 1..Len(chunks) :
                      /\ response.chunks[k].content = chunks[k].content
                      /\ response.chunks[k].embedding # NoEmbedding

\* a valid request whose document gave two chunks; one task returned its
\* embedding, the other raised, and the answer is 500 without chunks
C19_Witness ==
    /\ request.pc = "responded" /\ ValidRequest /\ request.pdf_ok
    /\ response.status = 500 /\ response.chunks = <<>>
    /\ SomeTaskRaised
    /\ \E i \in 1..Len(tasks) : tasks[i].state = "returned"

-----------------------------------------------------------------------------
(* C20: whenever the body of process_pdf runs, the startup lifespan has     *)
(* initialised pdf_converter, markdown_chunker and embedding_generator      *)
(* (none of them is None), for the app served from main.py and for the      *)
(* serverless handler of api/index.py alike.                                *)
C20_InitialisedBeforeRequests ==
    request.pc # "none" => Initialised

-----------------------------------------------------------------------------
\* the contents of the chunks chunk() made of the k-th top-level section
ContentsOfSection(k) ==
    [j \in 1..visited[k].count |-> chunks[visited[k].first + j - 1].content]

(* C21: the chunks of the header, bold-heading and structural-marker        *)
(* passes, those of the sections handed to the packer included, get no      *)
(* overlap prefix: every word occurrence of the escalated section is in     *)
(* exactly one of its chunks.  Overlap is added by the fallback pass only,  *)
(* always with the budget 2 * overlap_tokens, so the budget overlap_tokens  *)
(* itself is applied to no chunk.                                           *)
C21_OverlapOnlyInFallback ==
    \A k \in 1..Len(visited) :
        LET v == visited[k]
            contents == ContentsOfSection(k)
        IN  /\ v.pass \in {"header", "bold", "structural"} =>
                   WordsOfAll(contents) = Words(v.text)
            /\ v.pass = "none" => contents = <<v.text>>
            /\ v.pass = "fallback" =>
                   /\ Len(v.own) = v.count
                   /\ \A j \in 1..v.count :
                          contents[j] =
                              IF j = 1 \/ v.count = 1 THEN v.own[j]
                              ELSE _get_overlap_text(v.own[j - 1], 2 * overlap_tokens)
                                       \o <<NL, NL>> \o v.own[j]

\* a bold-heading pass with overlap_tokens > 0 that handed a section to the
\* packer, which made several chunks of it
C21_Witness ==
    /\ pc = "done" /\ overlap_tokens > 0
    /\ \E k \in 1..Len(visited) :
           /\ visited[k].pass = "bold"
           /\ \E sc \in {_split_by_bold_headings(visited[k].text)[i] :
                             i \in 1..Len(_split_by_bold_headings(visited[k].text))} :
                  /\ _estimate_tokens(sc.text) > max_tokens
                  /\ Len(Packed(sc.text, sc.metadata)) > 1

-----------------------------------------------------------------------------
(* The bold-heading and the structural-marker splitter on their own.        *)

MaxSplitLines == 3

\* a blank line, prose, a header, a short and a long bold line, a bullet
\* item (with a blank, with a tab), a numbered item and a rule
SplitLines ==
    { <<>>,
      <<"g", " ", "h", ".">>,
      <<"#", "#", " ", "b">>,
      <<"*", "*", "d", "d", "*", "*">>,
      <<"*", "*", "d", "d", "d", "d", "d", "d", "*", "*">>,
      <<"-", " ", "e">>,
      <<"-", "\t", "e">>,
      <<"1", ".", " ", "x">>,
      <<"-", "-", "-">> }

SplitTexts ==
    UNION {{JoinLines(ls, 1) : ls \in [1..n -> SplitLines]} : n \in 1..MaxSplitLines}

InitSplitters ==
    /\ text = <<>>
    /\ max_tokens = MaxTokens
    /\ overlap_tokens = MaxOverlap
    /\ pc = "idle"
    /\ sections = <<>>
    /\ chunks = <<>>
    /\ visited = <<>>
    /\ results = {}
    /\ other = NoCall
    /\ window = NoWindow
    /\ \E t \in SplitTexts, f \in {"bold", "structural"} :
           split = [NoSplit EXCEPT !.pc = "call", !.splitter = f, !.text = t]
    /\ NoService

\* sections = self._split_by_bold_headings(text)
SplitBold ==
    /\ split.pc = "call" /\ split.splitter = "bold"
    /\ split' = [split EXCEPT !.pc = "returned",
                              !.sections = _split_by_bold_headings(split.text)]
    /\ UNCHANGED <<chunker, results, other, window, service>>

\* sections = self._split_by_structural_markers(text)
SplitStructural ==
    /\ split.pc = "call" /\ split.splitter = "structural"
    /\ split' = [split EXCEPT !.pc = "returned",
                              !.sections = _split_by_structural_markers(split.text)]
    /\ UNCHANGED <<chunker, results, other, window, service>>

NextSplitters == SplitBold \/ SplitStructural

SpecSplitters == InitSplitters /\ [][NextSplitters]_vars

\* the splitter named f has returned for a text that is not blank
Returned(f) == split.pc = "returned" /\ split.splitter = f /\ HasContent(split.text)

\* the first line of a text
FirstLine(t) == SubSeq(t, 1, LineEnd(t, 1))

\* the text begins with a standalone bold heading: a full line that begins
\* and ends with ** and has at least 6 characters in between
BeginsWithBoldHeading(t) ==
    LET l == FirstLine(t)
    IN  /\ Len(l) >= 10
        /\ SubSeq(l, 1, 2) = <<"*", "*">>
        /\ SubSeq(l, Len(l) - 1, Len(l)) = <<"*", "*">>

(* C22: a section of the bold-heading splitter has the metadata {heading,   *)
(* section: bold, chunking_method: bold_headings}, the delimiters stripped  *)
(* from the heading, exactly when it begins with a standalone bold heading  *)
(* (inner text of at least 6 characters); else, when it begins with a       *)
(* header line, {heading, section: h<level>, chunking_method:               *)
(* bold_headings}; else {chunking_method: bold_headings} only.  The cuts    *)
(* are at the starts of the standalone bold-heading lines.                  *)
C22_BoldMetadata ==
    Returned("bold") =>
        /\ TextsIn(split.sections) =
               StrippedNonEmpty(SplitBefore(split.text,
                   {i \in LineStarts(split.text) :
                        BeginsWithBoldHeading(SubSeq(split.text, i, Len(split.text)))}))
        /\ \A k \in 1..Len(split.sections) :
               LET sc == split.sections[k]
                   m == HeaderMatch(sc.text)
               IN  sc.metadata =
                       IF BeginsWithBoldHeading(sc.text)
                       THEN FullMeta(Strip(RemoveBold(FirstLine(sc.text))), "bold", "bold_headings")
                       ELSE IF m.hit
                            THEN FullMeta(m.heading, LevelTag(m.level), "bold_headings")
                            ELSE MethodOnly("bold_headings")

-----------------------------------------------------------------------------
(* C23: every vector that generate_embedding or generate_embeddings returns *)
(* has exactly expected_dimensions entries.  An answer of the API of any    *)
(* other length is a failed attempt, retried and in the end raised: it is   *)
(* not returned to the caller and not placed in a response.                 *)
C23_ExpectedDimensions ==
    /\ \A i \in 1..Len(tasks) :
           LET t == tasks[i]
           IN  /\ t.state = "returned" =>
                      /\ t.embedding.dimensions = expected_dimensions
                      /\ t.received = expected_dimensions
               /\ (t.received # 0 /\ t.received # expected_dimensions) =>
                      /\ t.state \in {"sleep", "await", "raised"}
                      /\ t.embedding = NoEmbedding
                      /\ t.state = "await" =>
                             /\ t.attempt >= 1 /\ t.attempt <= max_retries
                             /\ t.calls = t.attempt + 1
    /\ \A k \in 1..Len(response.chunks) :
           response.chunks[k].embedding.dimensions = expected_dimensions

\* one task got a vector of one entry too many on its last attempt and
\* raised; the other was retried once and returned its vector
C23_Witness ==
    /\ Len(tasks) = 2
    /\ tasks[1].state = "raised" /\ tasks[1].received = expected_dimensions + 1
    /\ tasks[2].state = "returned" /\ tasks[2].calls >= 2
    /\ tasks[2].delays = <<retry_delay_ms>>

-----------------------------------------------------------------------------
\* the line of t that starts at i is a bullet item, a numbered item or a
\* horizontal rule
IsMarkerLine(t, i) ==
    LET e == LineEnd(t, i)
        l == SubSeq(t, i, e)
        d == RunLen(l, 1, Digits)
        \* the whitespace after the marker: a blank, or the line break
        spaceAt(k) == IF k <= Len(l) THEN IsSpace(l[k]) ELSE e < Len(t)
    IN  \/ Len(l) >= 1 /\ l[1] \in {"-", "*"} /\ spaceAt(2)
        \/ d >= 1 /\ Len(l) > d /\ l[d + 1] = "." /\ spaceAt(d + 2)
        \/ Len(l) >= 3 /\ \A k \in 1..Len(l) : l[k] \in {"-", "*"}

(* C24: the structural-marker splitter cuts in front of every line but the  *)
(* first that starts a bullet item (- or * and whitespace), a numbered item *)
(* (digits, a dot, whitespace) or a horizontal rule (3 or more - or *       *)
(* alone on the line, a rule on the last line included) and nowhere else;   *)
(* every section after the first begins with its marker line, and every     *)
(* section has heading = its first line cut to 100 characters, section =    *)
(* structural and chunking_method = structural_markers.                     *)
C24_StructuralCuts ==
    Returned("structural") =>
        /\ TextsIn(split.sections) =
               StrippedNonEmpty(SplitBefore(split.text,
                   {i \in LineStarts(split.text) \ {1} : IsMarkerLine(split.text, i)}))
        /\ \A k \in 1..Len(split.sections) :
               LET sc == split.sections[k]
                   l == FirstLine(sc.text)
               IN  /\ sc.metadata =
                          FullMeta(SubSeq(l, 1, IF Len(l) < 100 THEN Len(l) ELSE 100),
                                   "structural", "structural_markers")
                   /\ k > 1 => IsMarkerLine(sc.text \o <<NL>>, 1)

====
